---------------------------- MODULE Spec2Model ----------------------------
(***************************************************************************)
(* A model of the geoip package: the range tables (blocks, ASN) and the    *)
(* point table (countries) kept in a google/btree, their CSV loaders, the  *)
(* Latin-1 to UTF-8 reader, and the package initialisation with the lookup *)
(* facade GeoLocIPv4.                                                      *)
(*                                                                         *)
(* Several specifications share the module; each one drives one part of    *)
(* the package and leaves the variables of the other parts untouched:      *)
(*   SpecLoad    one table loader, row by row, then lookups                *)
(*   SpecLatin1  the Latin-1 reader under a caller's Read calls            *)
(*   SpecByte    the Latin-1 reader on each of the 256 one-byte files      *)
(*   SpecLoop    the Latin-1 reader under a loop of Read calls with        *)
(*               buffers of at least one byte                              *)
(*   SpecInit    init, then lookups through GeoLocIPv4, GetCountry and     *)
(*               GetRegion                                                 *)
(*   SpecGet     several readers calling Get on a loaded index             *)
(*   SpecLess    the order of the range items, on ranges and on points     *)
(***************************************************************************)
EXTENDS Integers, Sequences, FiniteSets, TLC

VARIABLES
    table,      \* SpecLoad: which loader runs: "blocks", "asn" or "countries"
    pc,         \* SpecLoad: position of the loader: "open", "loading", "returned", "failed"
    t,          \* SpecLoad: the btree being filled (the items of its node, in order)
    values,     \* SpecLoad: the record the csv reader returned last
    nrows,      \* SpecLoad: number of records read from the file so far
    readErr,    \* SpecLoad: TRUE once the csv reader returned an error other than EOF
    out,        \* SpecLoad: what ReplaceOrInsert returned last: the item replaced, or nil
    inserted,   \* SpecLoad: history: the items handed to ReplaceOrInsert so far
                \*   (items), kept as long as the ranges among them are pairwise
                \*   non-overlapping with low <= high (disjoint)
    lookup,     \* SpecLoad: the last Get call: its key and what it returned
    fileData,   \* SpecLatin1: the bytes of the file behind the reader
    filePos,    \* SpecLatin1: the position of the file (bytes from its start)
    currentChar,\* SpecLatin1: fileLatin1Reader.currentChar, the pending byte, 0 when none
    pbuf,       \* SpecLatin1: p, the caller's buffer, after the last Read
    ret,        \* SpecLatin1: what the last Read returned: n and err
    flrpc,      \* SpecLatin1: "ready", or "panic" once a Read has panicked
    calls,      \* SpecLatin1: number of Read calls made
    delivered,  \* SpecLatin1: history: the bytes the caller's loop has collected
    stopped,    \* SpecLatin1: history: the caller's loop has ended (a Read
                \*   returned 0 bytes or an error)
    zeroLen,    \* SpecLatin1: history: a Read was given a buffer of length 0
    emitted,    \* SpecLatin1: history: the bytes all the Read calls have returned
    toldEOF,    \* SpecLatin1: history: a Read has returned io.EOF
    ipc,        \* SpecInit: position of init: "start", "download", "locations",
                \*   "blocks", "asn", "done" (returned), "panic" (the process died)
    disk,       \* SpecInit: the file of each table in /tmp
    log_geolocip,   \* SpecInit: "nil" or "writer"
    locations,  \* SpecInit: the location table, a slice
    blocks,     \* SpecInit: the block index
    asn_tree,   \* SpecInit: the ASN index
    countries_tree, \* SpecInit: the country index
    regions_tree,   \* SpecInit: the region index
    attempted,  \* SpecInit: history: the tables whose loader init has called
    failedLoads,\* SpecInit: history: the tables whose loader returned an error
    result,     \* SpecInit: the last lookup: its operation, argument and what it returned
    gtab,       \* SpecGet: the kind of the index: "blocks", "asn" or "countries"
    gtree,      \* SpecGet: the index, shared by the readers
    loadedTree, \* SpecGet: history: the index as its loader returned it
    rpc,        \* SpecGet: of each reader: "idle", "get" (inside Get), "holding"
    gkey,       \* SpecGet: of each reader: the key of its Get
    got,        \* SpecGet: of each reader: history: what its Get returned
    held,       \* SpecGet: of each reader: the pointer it holds and the record
                \*   behind it
    la,         \* SpecLess: a range item
    lb,         \* SpecLess: a second one
    lc,         \* SpecLess: a third one
    lessOut     \* SpecLess: what the last comparisons returned

loadVars == <<table, pc, t, values, nrows, readErr, out, inserted, lookup>>

latin1Vars == <<fileData, filePos, currentChar, pbuf, ret, flrpc, calls,
                delivered, stopped, zeroLen, emitted, toldEOF>>

initVars == <<ipc, disk, log_geolocip, locations, blocks, asn_tree,
              countries_tree, regions_tree, attempted, failedLoads, result>>

getVars == <<gtab, gtree, loadedTree, rpc, gkey, got, held>>

lessVars == <<la, lb, lc, lessOut>>

vars == <<loadVars, latin1Vars, initVars, getVars, lessVars>>

\* What the actions of one part leave alone.
notLoadVars == <<latin1Vars, initVars, getVars, lessVars>>

notLatin1Vars == <<loadVars, initVars, getVars, lessVars>>

notInitVars == <<loadVars, latin1Vars, getVars, lessVars>>

notGetVars == <<loadVars, latin1Vars, initVars, lessVars>>

notLessVars == <<loadVars, latin1Vars, initVars, getVars>>

---------------------------------------------------------------------------
(* Bounds of the model. *)

\* Number of records a loader reads from one file.
MaxRows == 4

\* Length of the file behind the Latin-1 reader, in bytes.
MaxSrc == 3

\* Length of the buffer a caller hands to Read.
MaxBuf == 3

\* Number of readers calling Get at the same time.
MaxReaders == 2

\* Largest bound of a range, and largest point, Less is applied to.
MaxPoint == 3

\* Width in bits of one byte of an address. The program's bytes have 8 bits
\* and its addresses 4 bytes (uint32, ParseUint(.., 10, 32)); the model keeps
\* the four bytes and the range checks at a width the model checker can
\* enumerate.
ByteBits == 1

BitSize == 4 * ByteBits

MaxUint == 2^BitSize - 1

Nil == [type |-> "nil"]

---------------------------------------------------------------------------
(* Strings. A string is a sequence of one-character strings. *)

Chars == <<"-", "0", "1", "2", "3", "4", "5", "6", "7", "8", "9",
           "A", "F", "R", "S", "U", "Z", "x">>

\* The position of a character in the byte order Go compares strings by.
CharCode(c) == CHOOSE i \in 1..Len(Chars) : Chars[i] = c

Digits == <<"0", "1", "2", "3", "4", "5", "6", "7", "8", "9">>

IsDigit(c) == \E i \in 1..10 : Digits[i] = c

DigitVal(c) == (CHOOSE i \in 1..10 : Digits[i] = c) - 1

\* Go's  a < b  on strings: bytewise lexicographic, a proper prefix is smaller.
RECURSIVE StrLess(_, _)
StrLess(a, b) ==
    IF b = <<>> THEN FALSE
    ELSE IF a = <<>> THEN TRUE
    ELSE IF CharCode(Head(a)) /= CharCode(Head(b))
         THEN CharCode(Head(a)) < CharCode(Head(b))
         ELSE StrLess(Tail(a), Tail(b))

\* strconv.ParseUint(s, 10, BitSize): the value and whether err == nil. An
\* empty string or a character that is no decimal digit is a syntax error,
\* a value above the largest unsigned integer is a range error.
RECURSIVE ParseDigits(_, _)
ParseDigits(s, n) ==
    IF s = <<>> THEN [ok |-> TRUE, val |-> n]
    ELSE IF ~IsDigit(Head(s)) THEN [ok |-> FALSE, val |-> 0]
    ELSE IF n * 10 + DigitVal(Head(s)) > MaxUint THEN [ok |-> FALSE, val |-> MaxUint]
    ELSE ParseDigits(Tail(s), n * 10 + DigitVal(Head(s)))

ParseUint(s) ==
    IF s = <<>> THEN [ok |-> FALSE, val |-> 0] ELSE ParseDigits(s, 0)

---------------------------------------------------------------------------
(* The items and their order. *)

\* Mutant of BlockLess: <= for <, so a range no longer matches its own bounds.
BlockLessOrEqual(block, than) == block.HighIP <= than.LowIP

BlockLess(block, than) == block.HighIP < than.LowIP

\* Mutant of ASNLess: the ranges ordered by their lower bound alone.
ASNLessByLow(asn, than) == asn.LowIP < than.LowIP

ASNLess(asn, than) == asn.HighIP < than.LowIP

\* Mutant of CountryLess: the entries ordered by name instead of code.
CountryLessByName(country, than) == StrLess(country.Name, than.Name)

CountryLess(country, than) == StrLess(country.Code, than.Code)

\* Region.Less: the regions are a point index on their code, as the
\* countries are.
RegionLess(region, than) == StrLess(region.Code, than.Code)

\* btree.Item.Less: the call is dispatched on the item's dynamic type.
Less(a, b) ==
    CASE a.type = "Block"   -> BlockLess(a, b)
      [] a.type = "ASN"     -> ASNLess(a, b)
      [] a.type = "Country" -> CountryLess(a, b)
      [] a.type = "Region"  -> RegionLess(a, b)

---------------------------------------------------------------------------
(* google/btree, degree 4: a node holds up to 7 items in order, so a tree  *)
(* of at most MaxRows + 1 < 8 items is its root node alone.                *)

\* sort.Search(n, f) with f(i) = item.Less(s[i]): the binary search as the
\* library runs it, indices from 0, s[h + 1] being the item at index h.
RECURSIVE Search(_, _, _, _)
Search(s, item, i, j) ==
    IF i < j
    THEN LET h == (i + j) \div 2
         IN  IF ~Less(item, s[h + 1])
             THEN Search(s, item, h + 1, j)
             ELSE Search(s, item, i, h)
    ELSE i

\* items.find: the index where item is or should be, and whether it is there.
find(s, item) ==
    LET i == Search(s, item, 0, Len(s))
    IN  IF i > 0 /\ ~Less(s[i], item)
        THEN [index |-> i - 1, found |-> TRUE]
        ELSE [index |-> i, found |-> FALSE]

\* items.insertAt(index, item), index from 0.
insertAt(s, index, item) ==
    SubSeq(s, 1, index) \o <<item>> \o SubSeq(s, index + 1, Len(s))

\* Mutant of ReplaceOrInsert: an equal item already stored is kept.
InsertUnlessPresent(s, item) ==
    LET f == find(s, item)
    IN  IF f.found THEN s ELSE insertAt(s, f.index, item)

\* BTree.ReplaceOrInsert on a root node without children.
ReplaceOrInsert(s, item) ==
    LET f == find(s, item)
    IN  IF f.found
        THEN [s EXCEPT ![f.index + 1] = item]
        ELSE insertAt(s, f.index, item)

\* What ReplaceOrInsert returns: the item it replaced, or nil.
Replaced(s, item) ==
    LET f == find(s, item)
    IN  IF f.found THEN s[f.index + 1] ELSE Nil

\* BTree.Get: the stored item equal to key (neither less than the other), or nil.
TreeGet(s, key) ==
    LET f == find(s, key)
    IN  IF f.found THEN s[f.index + 1] ELSE Nil

---------------------------------------------------------------------------
(* Pointers. Get returns a pointer: alias = 0 is a pointer to a record of  *)
(* its own (val), alias = k > 0 would be a pointer to the k-th item stored *)
(* in the tree.                                                            *)

NilPtr == [alias |-> 0, val |-> Nil]

\* Mutant of BlocksGet: the address of the item stored in the tree is returned.
BlocksGetStored(self, IP) ==
    LET f == find(self, [type |-> "Block", LowIP |-> IP, HighIP |-> IP, LocId |-> 0])
    IN  IF f.found THEN [alias |-> f.index + 1, val |-> self[f.index + 1]] ELSE NilPtr

\* Blocks.Get: item.(Block) copies the item into the local block, and the
\* address of that local is returned.
BlocksGet(self, IP) ==
    LET item == TreeGet(self, [type |-> "Block", LowIP |-> IP, HighIP |-> IP, LocId |-> 0])
    IN  IF item /= Nil THEN [alias |-> 0, val |-> item] ELSE NilPtr

\* ASNs.Get
ASNsGet(asns, IP) ==
    LET item == TreeGet(asns, [type |-> "ASN", LowIP |-> IP, HighIP |-> IP, ASN |-> <<>>])
    IN  IF item /= Nil THEN [alias |-> 0, val |-> item] ELSE NilPtr

\* Countries.Get
CountriesGet(countries, country_code) ==
    LET item == TreeGet(countries, [type |-> "Country", Code |-> country_code, Name |-> <<>>])
    IN  IF item /= Nil THEN [alias |-> 0, val |-> item] ELSE NilPtr

\* Regions.Get
RegionsGet(regions, code) ==
    LET item == TreeGet(regions, [type |-> "Region", Code |-> code, Name |-> <<>>])
    IN  IF item /= Nil THEN [alias |-> 0, val |-> item] ELSE NilPtr

---------------------------------------------------------------------------
(* One iteration of a loader's loop on the record vals the csv reader      *)
(* returned: the item handed to ReplaceOrInsert, or Nil when the record is *)
(* skipped.                                                                *)

\* Mutant of BlocksItem: the error of the second ParseUint is not looked at.
BlocksItemHighUnchecked(vals) ==
    IF Len(vals) /= 3 THEN Nil
    ELSE LET low_ip  == ParseUint(vals[1])
             high_ip == ParseUint(vals[2])
             loc_id  == ParseUint(vals[3])
         IN  IF ~low_ip.ok \/ ~loc_id.ok THEN Nil
             ELSE [type |-> "Block", LowIP |-> low_ip.val,
                   HighIP |-> high_ip.val, LocId |-> loc_id.val]

\* LoadBlocksFile: only records of 3 fields, all three parsed by ParseUint.
BlocksItem(vals) ==
    IF Len(vals) /= 3 THEN Nil
    ELSE LET low_ip  == ParseUint(vals[1])
             high_ip == ParseUint(vals[2])
             loc_id  == ParseUint(vals[3])
         IN  IF ~low_ip.ok \/ ~high_ip.ok \/ ~loc_id.ok THEN Nil
             ELSE [type |-> "Block", LowIP |-> low_ip.val,
                   HighIP |-> high_ip.val, LocId |-> loc_id.val]

\* LoadASNFile: only records of 3 fields, the third kept as it is.
ASNItem(vals) ==
    IF Len(vals) /= 3 THEN Nil
    ELSE LET low_ip  == ParseUint(vals[1])
             high_ip == ParseUint(vals[2])
         IN  IF ~low_ip.ok \/ ~high_ip.ok THEN Nil
             ELSE [type |-> "ASN", LowIP |-> low_ip.val,
                   HighIP |-> high_ip.val, ASN |-> vals[3]]

\* LoadCountries: only records of 2 fields, name first and code second.
CountryItem(vals) ==
    IF Len(vals) /= 2 THEN Nil
    ELSE [type |-> "Country", Code |-> vals[2], Name |-> vals[1]]

\* LoadRegions: only records of 2 fields, name first and code second.
RegionItem(vals) ==
    IF Len(vals) /= 2 THEN Nil
    ELSE [type |-> "Region", Code |-> vals[2], Name |-> vals[1]]

RowItem(tab, vals) ==
    CASE tab = "blocks"    -> BlocksItem(vals)
      [] tab = "asn"       -> ASNItem(vals)
      [] tab = "countries" -> CountryItem(vals)
      [] tab = "regions"   -> RegionItem(vals)

\* The tree after one iteration of the loop.
LoadRow(tab, tree, vals) ==
    IF RowItem(tab, vals) = Nil THEN tree
    ELSE ReplaceOrInsert(tree, RowItem(tab, vals))

\* The Get of table tab on key.
TableGet(tab, tree, key) ==
    CASE tab = "blocks"    -> BlocksGet(tree, key)
      [] tab = "asn"       -> ASNsGet(tree, key)
      [] tab = "countries" -> CountriesGet(tree, key)
      [] tab = "regions"   -> RegionsGet(tree, key)

---------------------------------------------------------------------------
(* The records a file may hold, as the csv reader returns them. *)

NumFields == {<<"0">>, <<"1">>, <<"2">>}

RangeRows ==
    {<<lo, hi, <<"0">> >> : lo \in NumFields, hi \in NumFields}
    \cup {
        << <<"1">>, <<"1">>, <<"1">> >>,           \* the same ranges, another payload
        << <<"0">>, <<"2">>, <<"1">> >>,
        << <<"0", "1">>, <<"2">>, <<"1">> >>,      \* leading zero: "01" is 1
        << <<"0">>, <<"0">>, <<"A", "S">> >>,      \* third field not a number
        << <<"x">>, <<"1">>, <<"0">> >>,           \* low not a number
        << <<"1">>, <<"-", "1">>, <<"0">> >>,      \* high not a number
        << <<>>, <<"1">>, <<"0">> >>,              \* empty field
        << <<"9", "9">>, <<"9", "9">>, <<"0">> >>, \* low out of range
        << <<"0">>, <<"9", "9">>, <<"1">> >>,      \* high out of range
        << <<"0">>, <<"1">>, <<"9", "9">> >>,      \* third field out of range
        << <<"0">>, <<"1">> >>,                    \* wrong number of fields
        << <<"0">>, <<"1">>, <<"1">>, <<"1">> >>
    }

Codes == {<<"F", "R">>, <<"U", "S">>, <<"F">>, <<"Z", "A">>}

CountryRows ==
    {<<name, code>> : name \in {<<"F", "R", "A">>, <<"U", "S", "A">>}, code \in Codes}
    \cup {
        << <<"F", "R", "A">> >>,
        << <<"F", "R", "A">>, <<"F", "R">>, <<"x">> >>
    }

Rows(tab) == IF tab = "countries" THEN CountryRows ELSE RangeRows

\* The keys looked up.
Keys(tab) ==
    IF tab = "countries" THEN Codes \cup {<<"Z", "Z">>, <<>>, <<"F", "R", "A">>}
    ELSE {ParseUint(f).val : f \in NumFields} \cup {MaxUint}

---------------------------------------------------------------------------
(* fileLatin1Reader: the reader that turns the ISO 8859-1 bytes of a file  *)
(* into UTF-8.                                                             *)

Min(a, b) == IF a < b THEN a ELSE b

\* The bitwise operators of Go on bytes.
RECURSIVE BitAnd(_, _)
BitAnd(a, b) ==
    IF a = 0 \/ b = 0 THEN 0
    ELSE (a % 2) * (b % 2) + 2 * BitAnd(a \div 2, b \div 2)

RECURSIVE BitOr(_, _)
BitOr(a, b) ==
    IF a = 0 THEN b
    ELSE IF b = 0 THEN a
    ELSE (IF a % 2 = 1 \/ b % 2 = 1 THEN 1 ELSE 0) + 2 * BitOr(a \div 2, b \div 2)

ShiftRight(a, k) == a \div (2 ^ k)

\* What a position of the caller's buffer holds when Read wrote nothing there.
Stale == 0 - 1

\* flr.file.Read(buf) on a regular file, buf of length len: the bytes up to
\* the end of the file, or (0, io.EOF) at the end of the file; (0, nil) for a
\* buf of length 0.
FileRead(data, pos, len) ==
    LET n == Min(len, Len(data) - pos)
    IN  [n   |-> n,
         err |-> IF len > 0 /\ n = 0 THEN "EOF" ELSE "nil",
         buf |-> SubSeq(data, pos + 1, pos + n)]

\* Mutant of FirstByte: the two high bits are not shifted down.
FirstByteUnshifted(b) == BitOr(192, BitAnd(b, 192))

\* The first byte written for a byte b >= 0x80: 0xC0 | (b & 0xC0) >> 6.
FirstByte(b) == BitOr(192, ShiftRight(BitAnd(b, 192), 6))

\* Mutant of SecondByte: the byte is not masked.
SecondByteUnmasked(b) == BitOr(128, b)

\* The second byte: 0x80 | (b & 0x3f).
SecondByte(b) == BitOr(128, BitAnd(b, 63))

\* The loop that moves the bytes of buf into the caller's buffer dst, from
\* index i of buf (from 0), nb_written bytes of dst being written already.
\* It yields i, dst, nb_written and currentChar as the loop leaves them.
RECURSIVE Convert(_, _, _, _, _)
Convert(buf, i, dst, nb_written, cc) ==
    IF i >= Len(buf) \/ nb_written >= Len(dst)
    THEN [i |-> i, p |-> dst, nb_written |-> nb_written, currentChar |-> cc]
    ELSE LET b == buf[i + 1]
         IN  IF b < 128
             THEN Convert(buf, i + 1, [dst EXCEPT ![nb_written + 1] = b],
                          nb_written + 1, cc)
             ELSE LET dst1 == [dst EXCEPT ![nb_written + 1] = FirstByte(b)]
                  IN  IF nb_written + 1 >= Len(dst)
                      THEN Convert(buf, i + 1, dst1, nb_written + 1, SecondByte(b))
                      ELSE Convert(buf, i + 1,
                                   [dst1 EXCEPT ![nb_written + 2] = SecondByte(b)],
                                   nb_written + 2, cc)

\* Mutant of SeekBack: the offset with its sign reversed.
SeekForward(pos, n, i) == pos + n + (n - i)

\* Mutant of SeekBack: the file is set back to where its Read started.
SeekRewind(pos, n, i) == pos

\* Mutant of SeekBack: the file is left where its Read ended.
SeekOmitted(pos, n, i) == pos + n

\* The position of the file after flr.file.Seek(int64(i-n), 1), the Read
\* before it having moved the position by n.
SeekBack(pos, n, i) == pos + n + (i - n)

\* The error Read returns: nil for an io.EOF of the file with a byte pending.
ReadErr(err, cc) == IF err = "EOF" /\ cc /= 0 THEN "nil" ELSE err

\* fileLatin1Reader.Read(p) with len(p) = len, on the file data at position
\* pos, the pending byte being cc. With a byte pending and len = 0 the write
\* of p[0] panics (index out of range), after the Read of the file.
flrRead(data, pos, cc, len) ==
    LET rd  == FileRead(data, pos, len)
        dst == [k \in 1..len |-> Stale]
    IN  IF cc /= 0 /\ len = 0
        THEN [panic |-> TRUE, n |-> 0, err |-> "nil", p |-> dst,
              pos |-> pos + rd.n, currentChar |-> cc]
        ELSE LET dst0 == IF cc /= 0 THEN [dst EXCEPT ![1] = cc] ELSE dst
                 nb0  == IF cc /= 0 THEN 1 ELSE 0
                 c    == Convert(rd.buf, 0, dst0, nb0, 0)
             IN  [panic |-> FALSE,
                  n |-> c.nb_written,
                  err |-> ReadErr(rd.err, c.currentChar),
                  p |-> c.p,
                  pos |-> SeekBack(pos, rd.n, c.i),
                  currentChar |-> c.currentChar]

---------------------------------------------------------------------------
(* SpecLatin1: a file of at most MaxSrc bytes behind a fileLatin1Reader,   *)
(* and a caller that calls Read with buffers of any length up to MaxBuf.   *)

\* The bytes a file is made of: NUL, "A", and 0x80, 0xE9 (e acute).
Bytes == {0, 65, 128, 233}

RECURSIVE SeqsUpTo(_, _)
SeqsUpTo(S, n) ==
    IF n = 0 THEN {<<>>}
    ELSE SeqsUpTo(S, n - 1) \cup
         {Append(q, x) : q \in {r \in SeqsUpTo(S, n - 1) : Len(r) = n - 1}, x \in S}

\* Calls of Read the model follows.
MaxCalls == 2 * MaxSrc + 2

Latin1Idle ==
    /\ fileData = <<>>
    /\ filePos = 0
    /\ currentChar = 0
    /\ pbuf = <<>>
    /\ ret = [n |-> 0, err |-> "nil"]
    /\ flrpc = "idle"
    /\ calls = 0
    /\ delivered = <<>>
    /\ stopped = FALSE
    /\ zeroLen = FALSE
    /\ emitted = <<>>
    /\ toldEOF = FALSE

\* flr := &fileLatin1Reader{ file: file } on a file just opened.
Latin1Start ==
    /\ fileData \in SeqsUpTo(Bytes, MaxSrc)
    /\ filePos = 0
    /\ currentChar = 0
    /\ pbuf = <<>>
    /\ ret = [n |-> 0, err |-> "nil"]
    /\ flrpc = "ready"
    /\ calls = 0
    /\ delivered = <<>>
    /\ stopped = FALSE
    /\ zeroLen = FALSE
    /\ emitted = <<>>
    /\ toldEOF = FALSE

\* One call of Read. The caller collects p[:n] until a call returns 0 bytes
\* or an error (the bytes of that call included), as the loop of
\* TestLatin1Reader does.
ReadCall(len) ==
    /\ flrpc = "ready"
    /\ calls < MaxCalls
    /\ LET r == flrRead(fileData, filePos, currentChar, len)
       IN  /\ flrpc' = IF r.panic THEN "panic" ELSE "ready"
           /\ filePos' = r.pos
           /\ currentChar' = r.currentChar
           /\ pbuf' = r.p
           /\ ret' = [n |-> r.n, err |-> r.err]
           /\ delivered' = IF stopped \/ r.panic THEN delivered
                           ELSE delivered \o SubSeq(r.p, 1, r.n)
           /\ stopped' = (stopped \/ r.panic \/ r.n = 0 \/ r.err /= "nil")
           /\ zeroLen' = (zeroLen \/ (~stopped /\ len = 0))
           /\ emitted' = IF r.panic THEN emitted
                         ELSE emitted \o SubSeq(r.p, 1, r.n)
           /\ toldEOF' = (toldEOF \/ (~r.panic /\ r.err = "EOF"))
    /\ calls' = calls + 1
    /\ UNCHANGED fileData
    /\ UNCHANGED notLatin1Vars

\* A call of Read with a buffer of any length up to MaxBuf.
Read == \E len \in 0..MaxBuf : ReadCall(len)

\* The bytes of the files the loop reads: "A" and 0xE9, one byte that is
\* copied and one that becomes two.
LoopBytes == {65, 233}

\* flr := &fileLatin1Reader{ file: file } before the loop of Read calls.
LoopStart ==
    /\ fileData \in SeqsUpTo(LoopBytes, MaxSrc)
    /\ filePos = 0
    /\ currentChar = 0
    /\ pbuf = <<>>
    /\ ret = [n |-> 0, err |-> "nil"]
    /\ flrpc = "ready"
    /\ calls = 0
    /\ delivered = <<>>
    /\ stopped = FALSE
    /\ zeroLen = FALSE
    /\ emitted = <<>>
    /\ toldEOF = FALSE

\* A call of Read with a buffer of at least one byte, as in the loop of
\* TestLatin1Reader (buf := make([]byte, 5)).
ReadSome == \E len \in 1..MaxBuf : ReadCall(len)

---------------------------------------------------------------------------
(* SpecByte: the reader on every file of one byte.                         *)

\* The values of a byte.
AllBytes == 0..255

\* flr := &fileLatin1Reader{ file: file } on a file of one byte.
ByteStart ==
    /\ fileData \in {<<b>> : b \in AllBytes}
    /\ filePos = 0
    /\ currentChar = 0
    /\ pbuf = <<>>
    /\ ret = [n |-> 0, err |-> "nil"]
    /\ flrpc = "ready"
    /\ calls = 0
    /\ delivered = <<>>
    /\ stopped = FALSE
    /\ zeroLen = FALSE
    /\ emitted = <<>>
    /\ toldEOF = FALSE

---------------------------------------------------------------------------
(* The history of the inserted items. *)

IsRangeTable == table \in {"blocks", "asn"}

Items(s) == {s[i] : i \in 1..Len(s)}

Contains(r, p) == r.LowIP <= p /\ p <= r.HighIP

\* Two ranges share a point.
Overlap(a, b) ==
    /\ a.LowIP <= a.HighIP /\ b.LowIP <= b.HighIP
    /\ a.LowIP <= b.HighIP /\ b.LowIP <= a.HighIP

\* A set of ranges as the tables' provider promises it.
NonOverlapping(R) ==
    /\ \A r \in R : r.LowIP <= r.HighIP
    /\ \A a \in R : \A b \in R : a /= b => ~Overlap(a, b)

\* The history after item was handed to ReplaceOrInsert.
Track(tab, hist, item) ==
    IF item = Nil THEN hist
    ELSE IF tab = "countries"
    THEN [disjoint |-> TRUE, items |-> hist.items \cup {item}]
    ELSE IF hist.disjoint /\ NonOverlapping(hist.items \cup {item})
    THEN [disjoint |-> TRUE, items |-> hist.items \cup {item}]
    ELSE [disjoint |-> FALSE, items |-> {}]

---------------------------------------------------------------------------
(* SpecLoad: one loader (LoadBlocksFile, LoadASNFile or LoadCountries)     *)
(* from its call to its return, then Get calls on what it returned.        *)

LoadIdle ==
    /\ table = "none"
    /\ pc = "idle"
    /\ t = <<>>
    /\ values = <<>>
    /\ nrows = 0
    /\ readErr = FALSE
    /\ out = Nil
    /\ inserted = [disjoint |-> TRUE, items |-> {}]
    /\ lookup = [key |-> 0, res |-> NilPtr, called |-> FALSE]

LoadStart ==
    /\ table \in {"blocks", "asn", "countries"}
    /\ pc = "open"
    /\ t = <<>>
    /\ values = <<>>
    /\ nrows = 0
    /\ readErr = FALSE
    /\ out = Nil
    /\ inserted = [disjoint |-> TRUE, items |-> {}]
    /\ lookup = [key |-> 0, res |-> NilPtr, called |-> FALSE]

\* os.Open fails: the loader returns (nil, err). LoadCountries opens no file.
OpenFail ==
    /\ pc = "open"
    /\ table /= "countries"
    /\ pc' = "failed"
    /\ UNCHANGED <<table, t, values, nrows, readErr, out, inserted, lookup>>
    /\ UNCHANGED notLoadVars

\* os.Open succeeds, btree.New(4) makes the empty tree.
OpenOk ==
    /\ pc = "open"
    /\ pc' = "loading"
    /\ t' = <<>>
    /\ UNCHANGED <<table, values, nrows, readErr, out, inserted, lookup>>
    /\ UNCHANGED notLoadVars

\* r.Read() returns a record: one iteration of the loop.
ReadRow ==
    /\ pc = "loading"
    /\ nrows < MaxRows
    /\ \E row \in Rows(table) :
          /\ values' = row
          /\ t' = LoadRow(table, t, row)
          /\ out' = IF RowItem(table, row) = Nil THEN Nil
                    ELSE Replaced(t, RowItem(table, row))
          /\ inserted' = Track(table, inserted, RowItem(table, row))
    /\ nrows' = nrows + 1
    /\ UNCHANGED <<table, pc, readErr, lookup>>
    /\ UNCHANGED notLoadVars

\* r.Read() returns io.EOF: break, return (t, nil).
ReadEOF ==
    /\ pc = "loading"
    /\ pc' = "returned"
    /\ UNCHANGED <<table, t, values, nrows, readErr, out, inserted, lookup>>
    /\ UNCHANGED notLoadVars

\* r.Read() returns another error: it is logged, break, return (t, nil).
ReadError ==
    /\ pc = "loading"
    /\ readErr' = TRUE
    /\ pc' = "returned"
    /\ UNCHANGED <<table, t, values, nrows, out, inserted, lookup>>
    /\ UNCHANGED notLoadVars

\* A Get on the tree the loader returned.
Get ==
    /\ pc = "returned"
    /\ \E key \in Keys(table) :
          lookup' = [key |-> key, res |-> TableGet(table, t, key), called |-> TRUE]
    /\ UNCHANGED <<table, pc, t, values, nrows, readErr, out, inserted>>
    /\ UNCHANGED notLoadVars

---------------------------------------------------------------------------
(* The package's tables. A slice or a pointer is nil (nil = TRUE) or holds *)
(* items; an empty slice that is not nil holds no item.                    *)

NilTable == [nil |-> TRUE, items |-> <<>>]

Loaded(items) == [nil |-> FALSE, items |-> items]

\* A file of /tmp: os.Open succeeds on it or not, and it holds records, one
\* a line.
Unavailable == [open |-> FALSE, rows |-> <<>>]

File(rows) == [open |-> TRUE, rows |-> rows]

\* The loop of a loader over the records of its file.
RECURSIVE LoadFile(_, _, _)
LoadFile(tab, rows, s) ==
    IF rows = <<>> THEN s
    ELSE LoadFile(tab, Tail(rows), LoadRow(tab, s, Head(rows)))

\* LoadBlocksFile: what it returns, the index and whether err /= nil.
LoadBlocksFile(file) ==
    IF ~file.open THEN [val |-> NilTable, err |-> TRUE]
    ELSE [val |-> Loaded(LoadFile("blocks", file.rows, <<>>)), err |-> FALSE]

\* LoadASNFile
LoadASNFile(file) ==
    IF ~file.open THEN [val |-> NilTable, err |-> TRUE]
    ELSE [val |-> Loaded(LoadFile("asn", file.rows, <<>>)), err |-> FALSE]

\* The constant countries_list, "name;code" a line, at the size of the model.
countries_list ==
    << << <<"F", "R", "A">>, <<"F", "R">> >>,
       << <<"U", "S", "A">>, <<"U", "S">> >> >>

\* LoadCountries reads countries_list: there is no file to open.
LoadCountries == Loaded(LoadFile("countries", countries_list, <<>>))

\* The list of the regions, "name;code" a line, the code being the country's
\* code followed by the region's.
regions_list ==
    << << <<"A", "R", "Z">>, <<"U", "S", "A", "Z">> >> >>

\* LoadRegions
LoadRegions == Loaded(LoadFile("regions", regions_list, <<>>))

\* strconv.Atoi(s): an optional sign, then decimal digits.
RECURSIVE AtoiDigits(_, _)
AtoiDigits(s, n) ==
    IF s = <<>> THEN [ok |-> TRUE, val |-> n]
    ELSE IF ~IsDigit(Head(s)) THEN [ok |-> FALSE, val |-> 0]
    ELSE AtoiDigits(Tail(s), n * 10 + DigitVal(Head(s)))

Atoi(s) ==
    IF s = <<>> THEN [ok |-> FALSE, val |-> 0]
    ELSE IF Head(s) = "-" \/ Head(s) = "+"
    THEN IF Tail(s) = <<>> THEN [ok |-> FALSE, val |-> 0]
         ELSE LET r == AtoiDigits(Tail(s), 0)
              IN  IF ~r.ok THEN r
                  ELSE IF Head(s) = "-" THEN [ok |-> TRUE, val |-> 0 - r.val]
                  ELSE r
    ELSE AtoiDigits(s, 0)

\* The zero value of Location.
ZeroLocation ==
    [Country |-> <<>>, Region |-> <<>>, City |-> <<>>, PostalCode |-> <<>>,
     Latitude |-> <<>>, Longitude |-> <<>>, MetroCode |-> <<>>, AreaCode |-> <<>>]

\* The Location of a record of 9 fields.
LocationOf(vals) ==
    [Country |-> vals[2], Region |-> vals[3], City |-> vals[4],
     PostalCode |-> vals[5], Latitude |-> vals[6], Longitude |-> vals[7],
     MetroCode |-> vals[8], AreaCode |-> vals[9]]

\* make([]Location, line_count)
MakeLocations(line_count) == [i \in 1..line_count |-> ZeroLocation]

\* The loop of LoadLocFile: loc_list[locId] = Location{...} for every record
\* of 9 fields whose first is a number. An index out of range panics.
RECURSIVE LoadLocRows(_, _)
LoadLocRows(rows, loc_list) ==
    IF rows = <<>> THEN [panic |-> FALSE, list |-> loc_list]
    ELSE LET vals == Head(rows)
         IN  IF Len(vals) /= 9 THEN LoadLocRows(Tail(rows), loc_list)
             ELSE LET locId == Atoi(vals[1])
                  IN  IF ~locId.ok THEN LoadLocRows(Tail(rows), loc_list)
                      ELSE IF locId.val < 0 \/ locId.val >= Len(loc_list)
                      THEN [panic |-> TRUE, list |-> loc_list]
                      ELSE LoadLocRows(Tail(rows),
                               [loc_list EXCEPT ![locId.val + 1] = LocationOf(vals)])

\* LoadLocFile: what it returns, and whether it went as far as loading the
\* countries and the regions. countLine counts the lines of the file.
LoadLocFile(file) ==
    IF ~file.open
    THEN [panic |-> FALSE, val |-> Loaded(<<>>), err |-> TRUE, trees |-> FALSE]
    ELSE LET r == LoadLocRows(file.rows, MakeLocations(Len(file.rows)))
         IN  [panic |-> r.panic, val |-> Loaded(r.list), err |-> FALSE,
              trees |-> ~r.panic]

\* Mutant of AfterLoad: init goes on to the next table after a failed load.
AfterLoadContinue(tab, err) ==
    CASE tab = "locations" -> "blocks"
      [] tab = "blocks"    -> "asn"
      [] tab = "asn"       -> "done"

\* init: where it goes after the loader of tab has returned: it returns on
\* an error, and loads the next table otherwise.
AfterLoad(tab, err) ==
    IF err THEN "done"
    ELSE CASE tab = "locations" -> "blocks"
           [] tab = "blocks"    -> "asn"
           [] tab = "asn"       -> "done"

\* The value of one byte more than the largest byte: 256 in the program.
Radix == 2 ^ ByteBits

\* addr := uint32(ip[15])+256*(uint32(ip[14])+256*(uint32(ip[13])+256*uint32(ip[12])))
Addr(ip) ==
    (ip[16] + Radix * (ip[15] + Radix * (ip[14] + Radix * ip[13]))) % (MaxUint + 1)

\* Location.GetCountry
GetCountry(loc) ==
    IF countries_tree.nil THEN <<>>
    ELSE LET country == CountriesGet(countries_tree.items, loc.Country)
         IN  IF country.val = Nil THEN <<>> ELSE country.val.Name

\* Location.GetRegion
GetRegion(loc) ==
    IF regions_tree.nil THEN <<>>
    ELSE LET code == loc.Country \o loc.Region
             region == RegionsGet(regions_tree.items, code)
         IN  IF region.val = Nil THEN <<>> ELSE region.val.Name

\* A method of log_geolocip called: it panics on the nil *syslog.Writer,
\* whose fields it reads.
LogPanics == log_geolocip = "nil"

\* GeoLocIPv4: what it returns, or that it panicked.
GeoLocIPv4(ip) ==
    IF locations.nil \/ blocks.nil \/ asn_tree.nil
    THEN [panic |-> LogPanics, val |-> Nil]
    ELSE IF Len(ip) < 16 THEN [panic |-> TRUE, val |-> Nil]
    ELSE LET addr == Addr(ip)
             block == BlocksGet(blocks.items, addr)
         IN  IF block.val = Nil THEN [panic |-> LogPanics, val |-> Nil]
             ELSE IF block.val.LocId >= Len(locations.items)
             THEN [panic |-> TRUE, val |-> Nil]
             ELSE LET location == locations.items[block.val.LocId + 1]
                  IN  [panic |-> FALSE,
                       val |-> [type |-> "GeoLocIp", Ip |-> ip, Block |-> block.val,
                                Location |-> location,
                                Asn |-> ASNsGet(asn_tree.items, addr).val,
                                CountryName |-> GetCountry(location),
                                RegionName |-> GetRegion(location)]]

---------------------------------------------------------------------------
(* SpecInit: init from its first statement to its return, then lookups.    *)

Tables == {"locations", "blocks", "asn"}

\* A record of 9 fields of the locations file.
LocRow(id, country, region) ==
    <<id, country, region, <<"x">>, <<>>, <<>>, <<>>, <<>>, <<>> >>

\* The files /tmp may hold for each table.
LocFiles ==
    {Unavailable,
     File(<<>>),
     File(<< LocRow(<<"0">>, <<"F", "R">>, <<>>),
             LocRow(<<"1">>, <<"U", "S">>, <<"A", "Z">>) >>),
     File(<< << <<"x">>, <<"x">> >>,
             LocRow(<<"1">>, <<"Z", "A">>, <<>>) >>),
     File(<< LocRow(<<"2">>, <<"F", "R">>, <<>>) >>)}

BlockFiles ==
    {Unavailable,
     File(<<>>),
     File(<< << <<"0">>, <<"1">>, <<"0">> >>, << <<"2">>, <<"3">>, <<"1">> >> >>),
     File(<< << <<"1">>, <<"2">>, <<"2">> >> >>)}

ASNFiles ==
    {Unavailable,
     File(<<>>),
     File(<< << <<"0">>, <<"2">>, <<"A", "S">> >> >>)}

Disks ==
    {[tab \in Tables |-> CASE tab = "locations" -> l
                           [] tab = "blocks"    -> b
                           [] tab = "asn"       -> a] :
        l \in LocFiles, b \in BlockFiles, a \in ASNFiles}

\* net.IPv4(a, b, c, d): the 16-byte form of an IPv4 address.
IPv4(a, b, c, d) ==
    <<0, 0, 0, 0, 0, 0, 0, 0, 0, 0, Radix - 1, Radix - 1, a, b, c, d>>

\* The addresses looked up: every IPv4 address, and one in its 4-byte form.
IPArgs ==
    {IPv4(a, b, c, d) : a \in 0..Radix - 1, b \in 0..Radix - 1,
                        c \in 0..Radix - 1, d \in 0..Radix - 1}
    \cup {<<0, 0, 0, 1>>}

\* The locations a caller asks the country or the region of.
LocArgs ==
    {[ZeroLocation EXCEPT !.Country = c, !.Region = r] :
        c \in {<<>>, <<"F", "R">>, <<"U", "S">>}, r \in {<<>>, <<"A", "Z">>}}

NoResult == [op |-> "none", arg |-> Nil, panic |-> FALSE, val |-> Nil]

InitIdle ==
    /\ ipc = "idle"
    /\ disk = [tab \in Tables |-> Unavailable]
    /\ log_geolocip = "nil"
    /\ locations = NilTable
    /\ blocks = NilTable
    /\ asn_tree = NilTable
    /\ countries_tree = NilTable
    /\ regions_tree = NilTable
    /\ attempted = {}
    /\ failedLoads = {}
    /\ result = NoResult

\* The package's variables before init runs.
InitStart ==
    /\ ipc = "start"
    /\ disk \in Disks
    /\ log_geolocip = "nil"
    /\ locations = NilTable
    /\ blocks = NilTable
    /\ asn_tree = NilTable
    /\ countries_tree = NilTable
    /\ regions_tree = NilTable
    /\ attempted = {}
    /\ failedLoads = {}
    /\ result = NoResult

\* log_geolocip, err = syslog.New(...): on an error init returns.
SyslogNew ==
    /\ ipc = "start"
    /\ \E err \in BOOLEAN :
          /\ log_geolocip' = IF err THEN "nil" ELSE "writer"
          /\ ipc' = IF err THEN "done" ELSE "download"
    /\ UNCHANGED <<disk, locations, blocks, asn_tree, countries_tree,
                   regions_tree, attempted, failedLoads, result>>
    /\ UNCHANGED notInitVars

\* DownloadMaxmindFiles(): it writes the files of /tmp, or fails and leaves
\* some as they were; init does not look at what it returns.
Download ==
    /\ ipc = "download"
    /\ disk' \in Disks
    /\ ipc' = "locations"
    /\ UNCHANGED <<log_geolocip, locations, blocks, asn_tree, countries_tree,
                   regions_tree, attempted, failedLoads, result>>
    /\ UNCHANGED notInitVars

\* if locations == nil { locations, err = LoadLocFile(LOCATIONS_FILE) ... }
InitLocations ==
    /\ ipc = "locations"
    /\ locations.nil
    /\ LET r == LoadLocFile(disk["locations"])
       IN  /\ ipc' = IF r.panic THEN "panic" ELSE AfterLoad("locations", r.err)
           /\ locations' = IF r.panic THEN locations ELSE r.val
           /\ countries_tree' = IF r.trees THEN LoadCountries ELSE countries_tree
           /\ regions_tree' = IF r.trees THEN LoadRegions ELSE regions_tree
           /\ failedLoads' = IF r.err THEN failedLoads \cup {"locations"}
                             ELSE failedLoads
    /\ attempted' = attempted \cup {"locations"}
    /\ UNCHANGED <<disk, log_geolocip, blocks, asn_tree, result>>
    /\ UNCHANGED notInitVars

\* if blocks == nil { blocks, err = LoadBlocksFile(BLOCKS_FILE) ... }
InitBlocks ==
    /\ ipc = "blocks"
    /\ blocks.nil
    /\ LET r == LoadBlocksFile(disk["blocks"])
       IN  /\ ipc' = AfterLoad("blocks", r.err)
           /\ blocks' = r.val
           /\ failedLoads' = IF r.err THEN failedLoads \cup {"blocks"}
                             ELSE failedLoads
    /\ attempted' = attempted \cup {"blocks"}
    /\ UNCHANGED <<disk, log_geolocip, locations, asn_tree, countries_tree,
                   regions_tree, result>>
    /\ UNCHANGED notInitVars

\* if asn_tree == nil { asn_tree, err = LoadASNFile(ASN_FILE) ... }
InitASN ==
    /\ ipc = "asn"
    /\ asn_tree.nil
    /\ LET r == LoadASNFile(disk["asn"])
       IN  /\ ipc' = AfterLoad("asn", r.err)
           /\ asn_tree' = r.val
           /\ failedLoads' = IF r.err THEN failedLoads \cup {"asn"}
                             ELSE failedLoads
    /\ attempted' = attempted \cup {"asn"}
    /\ UNCHANGED <<disk, log_geolocip, locations, blocks, countries_tree,
                   regions_tree, result>>
    /\ UNCHANGED notInitVars

\* A caller's GeoLocIPv4(ip), once init has returned. A panic ends the
\* process.
CallGeoLocIPv4 ==
    /\ ipc = "done"
    /\ \E ip \in IPArgs :
          LET r == GeoLocIPv4(ip)
          IN  /\ result' = [op |-> "GeoLocIPv4", arg |-> ip, panic |-> r.panic,
                             val |-> r.val]
              /\ ipc' = IF r.panic THEN "panic" ELSE "done"
    /\ UNCHANGED <<disk, log_geolocip, locations, blocks, asn_tree,
                   countries_tree, regions_tree, attempted, failedLoads>>
    /\ UNCHANGED notInitVars

\* A caller's loc.GetCountry()
CallGetCountry ==
    /\ ipc = "done"
    /\ \E loc \in LocArgs :
          result' = [op |-> "GetCountry", arg |-> loc, panic |-> FALSE,
                     val |-> GetCountry(loc)]
    /\ UNCHANGED <<ipc, disk, log_geolocip, locations, blocks, asn_tree,
                   countries_tree, regions_tree, attempted, failedLoads>>
    /\ UNCHANGED notInitVars

\* A caller's loc.GetRegion()
CallGetRegion ==
    /\ ipc = "done"
    /\ \E loc \in LocArgs :
          result' = [op |-> "GetRegion", arg |-> loc, panic |-> FALSE,
                     val |-> GetRegion(loc)]
    /\ UNCHANGED <<ipc, disk, log_geolocip, locations, blocks, asn_tree,
                   countries_tree, regions_tree, attempted, failedLoads>>
    /\ UNCHANGED notInitVars

---------------------------------------------------------------------------
(* SpecGet: an index its loader has returned, and several readers that     *)
(* call Get on it, write to the records Get returned to them, and drop     *)
(* them.                                                                   *)

Readers == 1..MaxReaders

\* The files the index was loaded from.
GetFiles(tab) ==
    IF tab = "countries"
    THEN {<<>>,
          << << <<"F", "R", "A">>, <<"F", "R">> >> >>,
          << << <<"U", "S", "A">>, <<"U", "S">> >>,
             << <<"F", "R", "A">>, <<"F", "R">> >> >>}
    ELSE {<<>>,
          << << <<"0">>, <<"0">>, <<"0">> >> >>,
          << << <<"1">>, <<"2">>, <<"1">> >> >>,
          << << <<"0">>, <<"0">>, <<"0">> >>, << <<"1">>, <<"2">>, <<"1">> >> >>,
          << << <<"2">>, <<"2">>, <<"0">> >>, << <<"0">>, <<"1">>, <<"1">> >> >>,
          << << <<"1">>, <<"1">>, <<"1">> >>, << <<"0">>, <<"0">>, <<"0">> >>,
             << <<"2">>, <<"2">>, <<"0">> >> >>}

\* What a caller may make of a record it holds.
Writes(val) ==
    CASE val.type = "Block" ->
            {[val EXCEPT !.HighIP = MaxUint], [val EXCEPT !.LocId = MaxUint]}
      [] val.type = "ASN" ->
            {[val EXCEPT !.HighIP = MaxUint], [val EXCEPT !.ASN = <<"x">>]}
      [] val.type = "Country" ->
            {[val EXCEPT !.Code = <<"Z", "Z">>], [val EXCEPT !.Name = <<"x">>]}

\* The tree after  *ptr = val : the pointer Get returned is the address of
\* Get's local copy, so a write through it reaches no item of the tree; a
\* pointer to a stored item would.
StoreThrough(s, ptr, val) ==
    IF ptr.alias = 0 THEN s ELSE [s EXCEPT ![ptr.alias] = val]

\* A reader holds a record it has written to.
HoldsWritten(r) == rpc[r] = "holding" /\ held[r].val /= got[r].val

GetIdle ==
    /\ gtab = "none"
    /\ gtree = <<>>
    /\ loadedTree = <<>>
    /\ rpc = [r \in Readers |-> "idle"]
    /\ gkey = [r \in Readers |-> 0]
    /\ got = [r \in Readers |-> [val |-> Nil, afterWrite |-> FALSE]]
    /\ held = [r \in Readers |-> NilPtr]

\* The loader has returned the index; no reader has started.
GetStart ==
    /\ gtab \in {"blocks", "asn", "countries"}
    /\ \E rows \in GetFiles(gtab) : gtree = LoadFile(gtab, rows, <<>>)
    /\ loadedTree = gtree
    /\ rpc = [r \in Readers |-> "idle"]
    /\ gkey = [r \in Readers |-> 0]
    /\ got = [r \in Readers |-> [val |-> Nil, afterWrite |-> FALSE]]
    /\ held = [r \in Readers |-> NilPtr]

\* Reader r calls Get.
GetEnter(r) ==
    /\ rpc[r] = "idle"
    /\ \E key \in Keys(gtab) : gkey' = [gkey EXCEPT ![r] = key]
    /\ rpc' = [rpc EXCEPT ![r] = "get"]
    /\ UNCHANGED <<gtab, gtree, loadedTree, got, held>>
    /\ UNCHANGED notGetVars

\* The Get of reader r reads the tree and returns.
GetReturn(r) ==
    /\ rpc[r] = "get"
    /\ held' = [held EXCEPT ![r] = TableGet(gtab, gtree, gkey[r])]
    /\ got' = [got EXCEPT ![r] = [val |-> held'[r].val,
                                  afterWrite |-> \E w \in Readers : HoldsWritten(w)]]
    /\ rpc' = [rpc EXCEPT ![r] = "holding"]
    /\ UNCHANGED <<gtab, gtree, loadedTree, gkey>>
    /\ UNCHANGED notGetVars

\* Reader r writes to the record its Get returned.
WriteRecord(r) ==
    /\ rpc[r] = "holding"
    /\ held[r].val /= Nil
    /\ \E val \in Writes(held[r].val) :
          /\ held' = [held EXCEPT ![r] = [alias |-> held[r].alias, val |-> val]]
          /\ gtree' = StoreThrough(gtree, held[r], val)
    /\ UNCHANGED <<gtab, loadedTree, rpc, gkey, got>>
    /\ UNCHANGED notGetVars

\* Reader r drops the record.
Release(r) ==
    /\ rpc[r] = "holding"
    /\ rpc' = [rpc EXCEPT ![r] = "idle"]
    /\ gkey' = [gkey EXCEPT ![r] = 0]
    /\ got' = [got EXCEPT ![r] = [val |-> Nil, afterWrite |-> FALSE]]
    /\ held' = [held EXCEPT ![r] = NilPtr]
    /\ UNCHANGED <<gtab, gtree, loadedTree>>
    /\ UNCHANGED notGetVars

---------------------------------------------------------------------------
(* SpecLess: Less of the range items, applied to ranges and to the item    *)
(* Get makes of a point.                                                   *)

\* A range item of the kind typ; the payload takes no part in the order.
RangeItem(typ, lo, hi) ==
    IF typ = "Block"
    THEN [type |-> "Block", LowIP |-> lo, HighIP |-> hi, LocId |-> 0]
    ELSE [type |-> "ASN", LowIP |-> lo, HighIP |-> hi, ASN |-> <<>>]

\* The item Get looks for: Block{IP, IP, 0} or ASN{IP, IP, ""}.
PointItem(typ, IP) == RangeItem(typ, IP, IP)

RangeItems(typ) == {RangeItem(typ, lo, hi) : lo \in 0..MaxPoint, hi \in 0..MaxPoint}

LessIdle ==
    /\ la = Nil
    /\ lb = Nil
    /\ lc = Nil
    /\ lessOut = [kind |-> "none"]

\* Three items of one kind, before any comparison.
LessStart ==
    /\ \E typ \in {"Block", "ASN"} :
          /\ la \in RangeItems(typ)
          /\ lb \in RangeItems(typ)
          /\ lc \in RangeItems(typ)
    /\ lessOut = [kind |-> "none"]

\* Less between the three items, as the tree calls it on stored items.
CompareRanges ==
    /\ lessOut' = [kind |-> "ranges",
                   aa |-> Less(la, la),
                   ab |-> Less(la, lb), ba |-> Less(lb, la),
                   bc |-> Less(lb, lc), cb |-> Less(lc, lb),
                   ac |-> Less(la, lc), ca |-> Less(lc, la)]
    /\ UNCHANGED <<la, lb, lc>>
    /\ UNCHANGED notLessVars

\* Less between the item of a point and a stored item, as Get calls it.
ComparePoint ==
    /\ \E IP \in 0..MaxPoint :
          lessOut' = [kind |-> "point", IP |-> IP,
                      pa |-> Less(PointItem(la.type, IP), la),
                      ap |-> Less(la, PointItem(la.type, IP))]
    /\ UNCHANGED <<la, lb, lc>>
    /\ UNCHANGED notLessVars

---------------------------------------------------------------------------
(* The specifications. *)

InitLoad == LoadStart /\ Latin1Idle /\ InitIdle /\ GetIdle /\ LessIdle

NextLoad == OpenFail \/ OpenOk \/ ReadRow \/ ReadEOF \/ ReadError \/ Get

SpecLoad == InitLoad /\ [][NextLoad]_vars

InitLatin1 == Latin1Start /\ LoadIdle /\ InitIdle /\ GetIdle /\ LessIdle

NextLatin1 == Read

SpecLatin1 == InitLatin1 /\ [][NextLatin1]_vars

InitByte == ByteStart /\ LoadIdle /\ InitIdle /\ GetIdle /\ LessIdle

NextByte == Read

SpecByte == InitByte /\ [][NextByte]_vars

InitLoop == LoopStart /\ LoadIdle /\ InitIdle /\ GetIdle /\ LessIdle

NextLoop == ReadSome

\* The caller's loop goes on calling Read.
SpecLoop == InitLoop /\ [][NextLoop]_vars /\ WF_vars(NextLoop)

InitInit == InitStart /\ LoadIdle /\ Latin1Idle /\ GetIdle /\ LessIdle

NextInit ==
    \/ SyslogNew
    \/ Download
    \/ InitLocations
    \/ InitBlocks
    \/ InitASN
    \/ CallGeoLocIPv4
    \/ CallGetCountry
    \/ CallGetRegion

SpecInit == InitInit /\ [][NextInit]_vars

InitGet == GetStart /\ LoadIdle /\ Latin1Idle /\ InitIdle /\ LessIdle

NextGet ==
    \E r \in Readers : GetEnter(r) \/ GetReturn(r) \/ WriteRecord(r) \/ Release(r)

SpecGet == InitGet /\ [][NextGet]_vars

InitLess == LessStart /\ LoadIdle /\ Latin1Idle /\ InitIdle /\ GetIdle

NextLess == CompareRanges \/ ComparePoint

SpecLess == InitLess /\ [][NextLess]_vars

---------------------------------------------------------------------------
(* Vocabulary of the properties of the range tables. *)

\* A decimal numeral and its value, read from the last digit.
IsNumeral(s) == s /= <<>> /\ \A i \in 1..Len(s) : IsDigit(s[i])

RECURSIVE NumeralValue(_)
NumeralValue(s) ==
    IF s = <<>> THEN 0
    ELSE 10 * NumeralValue(SubSeq(s, 1, Len(s) - 1)) + DigitVal(s[Len(s)])

FitsUint(s) == IsNumeral(s) /\ NumeralValue(s) <= MaxUint

\* A record of a range table that the loader has to skip.
Malformed(tab, vals) ==
    \/ Len(vals) /= 3
    \/ ~FitsUint(vals[1])
    \/ ~FitsUint(vals[2])
    \/ tab = "blocks" /\ ~FitsUint(vals[3])

\* The item a well-formed record stands for.
ItemOf(tab, vals) ==
    IF tab = "blocks"
    THEN [type |-> "Block", LowIP |-> NumeralValue(vals[1]),
          HighIP |-> NumeralValue(vals[2]), LocId |-> NumeralValue(vals[3])]
    ELSE [type |-> "ASN", LowIP |-> NumeralValue(vals[1]),
          HighIP |-> NumeralValue(vals[2]), ASN |-> vals[3]]

---------------------------------------------------------------------------
(* C1. When the ranges inserted so far into a block or ASN index are       *)
(* pairwise non-overlapping with low <= high, in whatever order they were  *)
(* inserted, Get(p) returns for every point p the inserted record whose    *)
(* range contains p, bounds included, and nil when no range contains p,    *)
(* also on the empty index.                                                *)
C1_GetReturnsContainingRange ==
    (IsRangeTable /\ inserted.disjoint /\ NonOverlapping(inserted.items)) =>
        /\ \A p \in 0..MaxUint :
              LET res == TableGet(table, t, p).val
              IN  IF \E r \in inserted.items : Contains(r, p)
                  THEN res \in inserted.items /\ Contains(res, p)
                  ELSE res = Nil
        /\ lookup.called =>
              LET res == lookup.res.val
              IN  IF \E r \in inserted.items : Contains(r, lookup.key)
                  THEN res \in inserted.items /\ Contains(res, lookup.key)
                  ELSE res = Nil

\* Three disjoint ranges were loaded and a Get on the upper bound of one of
\* them returned it.
C1_Witness ==
    /\ IsRangeTable /\ pc = "returned"
    /\ inserted.disjoint /\ Cardinality(inserted.items) = 3
    /\ lookup.called /\ lookup.res.val \in inserted.items
    /\ lookup.res.val.HighIP = lookup.key

---------------------------------------------------------------------------
(* C4. A record of a range table with a wrong number of fields, or with a  *)
(* numeric field that is no number or does not fit the unsigned integer,   *)
(* inserts nothing and the load goes on; a well-formed record is in the    *)
(* tree after its iteration; the loader fails only when the file cannot be *)
(* opened.                                                                 *)
C4_MalformedRowSkipped ==
    [][ (IsRangeTable /\ nrows' = nrows + 1) =>
           /\ pc' = "loading"
           /\ IF Malformed(table, values')
              THEN t' = t
              ELSE ItemOf(table, values') \in Items(t')
      ]_vars

\* One good record followed by one record of two fields: the loader
\* returned a tree of exactly one entry.
C4_Witness ==
    /\ IsRangeTable /\ pc = "returned" /\ ~readErr
    /\ nrows = 2 /\ Len(values) = 2 /\ Len(t) = 1

---------------------------------------------------------------------------
(* C7. Get on the country index returns, for every key k, an inserted      *)
(* entry whose code is exactly k when an entry with that code was          *)
(* inserted, and nil for every k that is the code of no inserted entry.    *)
C7_ExactKeyLookup ==
    table = "countries" =>
        /\ \A k \in Keys("countries") :
              LET res == CountriesGet(t, k).val
              IN  IF \E c \in inserted.items : c.Code = k
                  THEN res \in inserted.items /\ res.Code = k
                  ELSE res = Nil
        /\ lookup.called =>
              LET res == lookup.res.val
              IN  IF \E c \in inserted.items : c.Code = lookup.key
                  THEN res \in inserted.items /\ res.Code = lookup.key
                  ELSE res = Nil

\* "F" and "FR" are both loaded, and Get("FR") returned the FR entry.
C7_Witness ==
    /\ table = "countries" /\ pc = "returned"
    /\ \E c \in inserted.items : c.Code = <<"F">>
    /\ lookup.called /\ lookup.key = <<"F", "R">>
    /\ lookup.res.val /= Nil /\ lookup.res.val.Code = <<"F", "R">>

---------------------------------------------------------------------------
(* C9. The item of the record read in this step, and the step in which a   *)
(* loader inserts a range that overlaps a stored one.                      *)

NewItem == RowItem(table, values')

OverlappingInsert ==
    /\ IsRangeTable /\ nrows' = nrows + 1
    /\ NewItem /= Nil
    /\ \A r \in Items(t) \cup {NewItem} : r.LowIP <= r.HighIP
    /\ \E r \in Items(t) : Overlap(r, NewItem)

\* C9 as claimed: after the insert of a range that overlaps stored ranges
\* (all with low <= high), Get(p) returns the new record for every point p
\* of the new range.
C9_LastInsertedWins ==
    [][ OverlappingInsert =>
           /\ pc' = "loading"
           /\ \A p \in 0..MaxUint :
                 Contains(NewItem, p) => TableGet(table, t', p).val = NewItem
      ]_vars

\* C9 as amended: the insert of an overlapping range never fails; when the
\* ranges inserted before were pairwise non-overlapping with low <= high and
\* the new range overlaps exactly one stored range, the new record takes
\* its place and Get(p) returns the new record for every point p of the new
\* range.
C9_ReplacesTheOverlappedRange ==
    [][ OverlappingInsert =>
           /\ pc' = "loading"
           /\ (/\ inserted.disjoint
               /\ Cardinality({r \in Items(t) : Overlap(r, NewItem)}) = 1)
              => /\ Len(t') = Len(t)
                 /\ \A p \in 0..MaxUint :
                       Contains(NewItem, p) => TableGet(table, t', p).val = NewItem
      ]_vars

\* Two disjoint ranges were stored, then a range overlapping only the
\* second, with another payload, took its place.
C9_Witness ==
    /\ IsRangeTable /\ pc = "loading" /\ nrows = 3
    /\ Len(t) = 2 /\ NonOverlapping(Items(t)) /\ ~inserted.disjoint
    /\ RowItem(table, values) = t[2]
    /\ out /= Nil /\ out /= t[2]
    /\ Overlap(out, t[2]) /\ ~Overlap(out, t[1])

---------------------------------------------------------------------------
(* C10. Every record stored in a block or ASN index has low <= high.       *)
C10_StoredLowAtMostHigh ==
    IsRangeTable => \A r \in Items(t) : r.LowIP <= r.HighIP

---------------------------------------------------------------------------
(* Vocabulary of the properties of the Latin-1 reader. *)

\* The UTF-8 encoding of the code point b < 256.
Utf8(b) == IF b < 128 THEN <<b>> ELSE <<192 + (b \div 64), 128 + (b % 64)>>

RECURSIVE Utf8Seq(_)
Utf8Seq(s) == IF s = <<>> THEN <<>> ELSE Utf8(Head(s)) \o Utf8Seq(Tail(s))

---------------------------------------------------------------------------
(* C2. Whatever the bytes of the file and whatever the lengths >= 1 of the *)
(* buffers of the successive Read calls, the bytes the calls returned up   *)
(* to the first call that returned 0 bytes or an error are the UTF-8       *)
(* encoding of the whole file.                                             *)
C2_BufferSizeIndependence ==
    (stopped /\ ~zeroLen) => delivered = Utf8Seq(fileData)

\* A file of three bytes ending in a byte >= 0x80 was read to its end, the
\* last call delivering the second byte of that character into a buffer of
\* length 1.
C2_Witness ==
    /\ stopped /\ ~zeroLen
    /\ Len(fileData) = 3 /\ fileData[3] >= 128
    /\ Len(pbuf) = 1 /\ ret.n = 1
    /\ delivered = Utf8Seq(fileData)

---------------------------------------------------------------------------
(* C3. A Read call made with a byte pending and the file at its end (the   *)
(* Read of the file signals end-of-stream) writes the pending byte and     *)
(* returns a nil error; a call that returns io.EOF had no byte pending.    *)
C3_PendingByteBeforeEOF ==
    [][ (calls' = calls + 1 /\ Len(pbuf') > 0) =>
           /\ (currentChar /= 0 /\ filePos = Len(fileData)) =>
                 (ret'.n >= 1 /\ pbuf'[1] = currentChar /\ ret'.err = "nil")
           /\ ret'.err = "EOF" => currentChar = 0
      ]_vars

---------------------------------------------------------------------------
(* Vocabulary of the properties of init and of the lookups. *)

\* The table of the package loaded from the file of tab.
TableOf(tab) ==
    CASE tab = "locations" -> locations
      [] tab = "blocks"    -> blocks
      [] tab = "asn"       -> asn_tree

\* The loader of tab was called and returned no error.
LoadedOk(tab) == tab \in attempted /\ tab \notin failedLoads

\* The tables a lookup reads; the countries and the regions are loaded by
\* the loader of the locations.
TablesOf(op) ==
    IF op = "GeoLocIPv4" THEN Tables ELSE {"locations"}

NotFound(op, val) == IF op = "GeoLocIPv4" THEN val = Nil ELSE val = <<>>

\* The tables init loads, in the order it loads them, up to tab.
UpTo(tab) ==
    CASE tab = "locations" -> {"locations"}
      [] tab = "blocks"    -> {"locations", "blocks"}
      [] tab = "asn"       -> Tables

\* C5. A lookup made after init has returned with one of the tables it
\* reads not loaded does not panic and returns not-found (nil, or the empty
\* string).
C5_LookupNeverPanics ==
    (result.op /= "none" /\ \E tab \in TablesOf(result.op) : ~LoadedOk(tab))
        => (~result.panic /\ NotFound(result.op, result.val))

\* C8 as stated: when a loader has failed, the loaders of all the tables
\* have been called by the time init returns, and the failed table is nil.
C8_OtherLoadsStillAttempted ==
    (ipc = "done" /\ failedLoads /= {})
        => (attempted = Tables /\ \A tab \in failedLoads : TableOf(tab) = NilTable)

\* C8. A loader whose file cannot be opened returns an error, with no index
\* (blocks, ASN) or an empty list (locations); init then returns at once:
\* the tables loaded before stay as they are, the tables after it are never
\* loaded and stay nil.
C8_FailedLoadEndsInit ==
    [][ /\ \A tab \in Tables :
            (tab \in failedLoads' /\ tab \notin failedLoads) =>
                /\ ~disk[tab].open
                /\ ipc' = "done"
                /\ attempted' = UpTo(tab)
                /\ TableOf(tab)' = IF tab = "locations" THEN Loaded(<<>>) ELSE NilTable
                /\ \A other \in Tables \ {tab} : TableOf(other)' = TableOf(other)
                /\ \A other \in Tables \ UpTo(tab) : TableOf(other)' = NilTable
                /\ \A other \in UpTo(tab) \ {tab} : LoadedOk(other)
        /\ \A tab \in Tables :
            (ipc \in {"locations", "blocks", "asn"} /\ ~disk[ipc].open /\ tab = ipc)
                => tab \in failedLoads'
        /\ (failedLoads /= {} => (attempted' = attempted /\ failedLoads' = failedLoads
                                  /\ \A tab \in Tables : TableOf(tab)' = TableOf(tab)))
      ]_vars

C8_Witness ==
    /\ ipc = "done"
    /\ failedLoads = {"blocks"}
    /\ attempted = {"locations", "blocks"}
    /\ Len(locations.items) > 0
    /\ blocks.nil /\ asn_tree.nil
    /\ disk["asn"].open

\* C6. After the load the tree is what the loader returned, whatever Get
\* calls the readers make and whatever they write to the records returned
\* to them, and every Get has returned what it returns on the loaded tree
\* with no other reader around.
C6_ReadOnlyAfterLoad ==
    /\ gtree = loadedTree
    /\ \A r \in Readers :
          rpc[r] = "holding" => got[r].val = TableGet(gtab, loadedTree, gkey[r]).val

\* Two readers hold the same record, one has written to it, and the Get of
\* the other returned after that, while a Get was possibly under way.
C6_Witness ==
    \E r \in Readers : \E w \in Readers :
        /\ r /= w
        /\ rpc[r] = "holding" /\ got[r].afterWrite /\ got[r].val /= Nil
        /\ HoldsWritten(w) /\ got[w].val = got[r].val
        /\ gtab = "blocks"

---------------------------------------------------------------------------
(* Vocabulary of the properties of the order. *)

\* The item is a range with low <= high.
Proper(r) == r.LowIP <= r.HighIP

\* Two ranges have the same bounds.
SameRange(a, b) == a.LowIP = b.LowIP /\ a.HighIP = b.HighIP

\* The three items are ranges with low <= high, and two of them that are
\* not the same range share no point.
PairwiseDisjoint ==
    /\ Proper(la) /\ Proper(lb) /\ Proper(lc)
    /\ SameRange(la, lb) \/ ~Overlap(la, lb)
    /\ SameRange(lb, lc) \/ ~Overlap(lb, lc)
    /\ SameRange(la, lc) \/ ~Overlap(la, lc)

\* C11. Less(A, B) is A.high < B.low. For a range r with low <= high and a
\* point p, the item [p,p] is less than r iff p < r.low, r is less than
\* [p,p] iff r.high < p, and neither is less than the other iff
\* r.low <= p <= r.high, the two bounds included.
C11_ComparatorSemantics ==
    /\ lessOut.kind = "ranges" =>
          /\ lessOut.ab = (la.HighIP < lb.LowIP)
          /\ lessOut.ba = (lb.HighIP < la.LowIP)
    /\ (lessOut.kind = "point" /\ Proper(la)) =>
          /\ lessOut.pa = (lessOut.IP < la.LowIP)
          /\ lessOut.ap = (la.HighIP < lessOut.IP)
          /\ (~lessOut.pa /\ ~lessOut.ap) = Contains(la, lessOut.IP)

\* A point on the upper bound of a range of several points was compared.
C11_Witness ==
    /\ lessOut.kind = "point"
    /\ la.LowIP < la.HighIP
    /\ lessOut.IP = la.HighIP
    /\ ~lessOut.pa /\ ~lessOut.ap

\* C18. On ranges with low <= high that pairwise share no point Less is a
\* strict total order: irreflexive, asymmetric, transitive, and one of two
\* different ranges is less than the other; two ranges with low <= high
\* are equivalent (neither less than the other) iff they share a point.
C18_StrictTotalOrder ==
    lessOut.kind = "ranges" =>
        /\ PairwiseDisjoint =>
              /\ ~lessOut.aa
              /\ ~(lessOut.ab /\ lessOut.ba)
              /\ (lessOut.ab /\ lessOut.bc) => lessOut.ac
              /\ ~SameRange(la, lb) => (lessOut.ab \/ lessOut.ba)
        /\ (Proper(la) /\ Proper(lb)) =>
              ((~lessOut.ab /\ ~lessOut.ba) = Overlap(la, lb))

\* Three ASN ranges that share no point, in increasing order, were compared.
C18_Witness ==
    /\ lessOut.kind = "ranges"
    /\ la.type = "ASN"
    /\ PairwiseDisjoint
    /\ lessOut.ab /\ lessOut.bc /\ lessOut.ac
    /\ la.LowIP < la.HighIP

---------------------------------------------------------------------------
(* Vocabulary of the properties of the reader's state. *)

\* The step is a call of Read.
ReadStep == calls' = calls + 1

\* The pending byte as a sequence: empty when the state is idle.
Pending(cc) == IF cc = 0 THEN <<>> ELSE <<cc>>

\* The source bytes between the position before the step and after it.
Consumed == SubSeq(fileData, filePos + 1, filePos')

\* The bytes the file's Read has put into buf in the step.
RawRead == Min(Len(pbuf'), Len(fileData) - filePos)

\* Number of bytes of the UTF-8 encoding of the source bytes s.
RECURSIVE Utf8Len(_)
Utf8Len(s) ==
    IF s = <<>> THEN 0
    ELSE (IF Head(s) < 128 THEN 1 ELSE 2) + Utf8Len(Tail(s))

\* The step leaves a byte pending for the reason C12 gives: the last source
\* byte it took is >= 0x80, its first byte went into the last slot of the
\* destination, and its second byte is the pending one.
PendingSetByLastSlot ==
    /\ filePos' > filePos
    /\ fileData[filePos'] >= 128
    /\ ret'.n = Len(pbuf')
    /\ pbuf'[ret'.n] = Utf8(fileData[filePos'])[1]
    /\ currentChar' = Utf8(fileData[filePos'])[2]

\* C12. A Read call leaves idle for pending only when a source byte >= 0x80
\* had its first byte written into the last free slot of the destination;
\* a Read call made in the pending state writes the pending byte first and
\* leaves the state idle, unless a source byte of this call sets it anew.
C12_PendingStateMachine ==
    [][ ReadStep =>
          /\ (currentChar = 0 /\ currentChar' /= 0) => PendingSetByLastSlot
          /\ currentChar /= 0 =>
                /\ ret'.n >= 1
                /\ pbuf'[1] = currentChar
                /\ currentChar' = 0 \/ PendingSetByLastSlot
      ]_vars

\* C13. A Read call moves the position of the file forward by the source
\* bytes whose conversion it started: what the call adds to the bytes
\* returned and the pending byte is the encoding of the source bytes between
\* the two positions; the offset of the Seek, bytes taken minus bytes read,
\* is never positive.
C13_PositionFollowsConversion ==
    [][ ReadStep =>
          /\ filePos' >= filePos
          /\ (filePos' - filePos) - RawRead <= 0
          /\ emitted' \o Pending(currentChar')
                = (emitted \o Pending(currentChar)) \o Utf8Seq(Consumed)
      ]_vars

\* A call has read three bytes and taken two of them, the second one half
\* written: the Seek went back by one.
C13_Witness ==
    /\ calls = 1
    /\ Len(pbuf) = 3
    /\ Len(fileData) = 3
    /\ filePos = 2
    /\ currentChar /= 0
    /\ ret.n = 3

\* C14. The bytes returned so far, followed by the pending byte if there
\* is one, are the UTF-8 encoding of the source bytes before the position
\* of the file; once a Read has returned io.EOF the number of bytes
\* returned is the sum of 1 for a source byte < 0x80 and 2 for the others,
\* and no byte is pending.
C14_DeliveredPrefix ==
    /\ emitted \o Pending(currentChar) = Utf8Seq(SubSeq(fileData, 1, filePos))
    /\ toldEOF => (Len(emitted) = Utf8Len(fileData) /\ currentChar = 0)

\* A byte was left pending, flushed by the next call, and io.EOF returned.
C14_Witness ==
    /\ toldEOF
    /\ Len(fileData) = MaxSrc
    /\ fileData[MaxSrc] >= 128
    /\ Len(emitted) = Utf8Len(fileData)
    /\ calls >= 3
    /\ ~zeroLen

\* C20. Whatever the length L >= 0 of the destination and whether a byte is
\* pending or not, Read does not fail, returns n with 0 <= n <= L and
\* writes the positions 0..n-1 of the destination and no other.
C20_ReadWithinBuffer ==
    /\ flrpc /= "panic"
    /\ ret.n >= 0 /\ ret.n <= Len(pbuf)
    /\ \A k \in 1..Len(pbuf) : (pbuf[k] = Stale) = (k > ret.n)

\* C15. The one source byte b taken, the bytes returned and the pending
\* byte are b itself when b < 0x80, and otherwise two bytes, the first 0xC2
\* or 0xC3 and the second in 0x80..0xBF, that are the UTF-8 encoding of the
\* code point b; the second byte is not 0, so that it is seen as pending
\* when the first one filled the destination.
C15_ByteMapping ==
    filePos = 1 =>
        LET b == fileData[1]
            o == emitted \o Pending(currentChar)
        IN  /\ b < 128 => o = <<b>>
            /\ b >= 128 =>
                  /\ Len(o) = 2
                  /\ o[1] \in {194, 195}
                  /\ o[2] \in 128..191
                  /\ 64 * (o[1] - 192) + (o[2] - 128) = b
                  /\ (Len(emitted) = 1) = (currentChar /= 0)

\* The byte 0xFF was taken with one slot free: 0xC3 returned, 0xBF pending.
C15_Witness ==
    /\ fileData = <<255>>
    /\ filePos = 1
    /\ emitted = <<195>>
    /\ currentChar = 191

\* C16. When the read of a record fails after some records were inserted,
\* the loader reports a failure to its caller: it does not return the
\* partly filled index as the result of a successful load.
C16_ReadFailureReported ==
    (IsRangeTable /\ readErr /\ Len(t) >= 1) => pc = "failed"

---------------------------------------------------------------------------
(* The lookup on the loaded tables.                                        *)

\* The three tables GeoLocIPv4 tests are loaded.
AllLoaded == ~locations.nil /\ ~blocks.nil /\ ~asn_tree.nil

\* A GeoLocIPv4 call with a 16-byte address was the last lookup, on loaded
\* tables.
LookedUp == result.op = "GeoLocIPv4" /\ Len(result.arg) = 16 /\ AllLoaded

\* The address of a 16-byte ip, as a number without a width.
BigEndian(ip) ==
    ip[13] * Radix ^ 3 + ip[14] * Radix ^ 2 + ip[15] * Radix + ip[16]

\* The stored ranges that contain addr.
Containing(tree, addr) ==
    {r \in Items(tree) : r.LowIP <= addr /\ addr <= r.HighIP}

\* C17. With the three tables loaded, GeoLocIPv4(ip) returns nil exactly
\* when no stored block contains the big-endian address of ip; when a block
\* contains it, the result is not nil, its Block is that range, its Location
\* is the entry of the location table at the block's location id, and its
\* Asn is nil when no ASN range contains the address.
C17_LookupOnLoadedTables ==
    LookedUp =>
        LET addr == BigEndian(result.arg)
            found == Containing(blocks.items, addr)
        IN  /\ ~result.panic
            /\ (result.val = Nil) = (found = {})
            /\ found /= {} =>
                  /\ result.val.Block \in found
                  /\ result.val.Block.LocId < Len(locations.items)
                  /\ result.val.Location =
                        locations.items[result.val.Block.LocId + 1]
                  /\ Containing(asn_tree.items, addr) = {}
                        => result.val.Asn = Nil

\* C19. Every index into the location table is within bounds: init does
\* not stop on loc_list[locId] out of range, and a lookup that found a block
\* reads locations[block.LocId] with block.LocId < len(locations).
C19_LocationIndexInBounds ==
    /\ ("locations" \in attempted /\ result.op = "none") => ipc /= "panic"
    /\ LookedUp =>
          LET block == BlocksGet(blocks.items, Addr(result.arg))
          IN  block.val /= Nil => block.val.LocId < Len(locations.items)

---------------------------------------------------------------------------
(* The progress of the reader.                                             *)

\* C21. With buffers of at least one byte: a Read call made while source
\* bytes remain or a byte is pending returns at least one byte; a caller
\* that loops until Read returns 0 bytes or the end of the stream makes at
\* most 2 * (source length) + 1 calls, and does stop; after the end of the
\* stream was returned, every Read returns 0 bytes and the end of the stream.
C21_ProgressAndTermination ==
    /\ [][ ReadStep =>
             /\ (filePos < Len(fileData) \/ currentChar /= 0) => ret'.n >= 1
             /\ ~stopped => calls' <= 2 * Len(fileData) + 1
             /\ toldEOF => ret' = [n |-> 0, err |-> "EOF"]
         ]_vars
    /\ <>stopped

\* A file of MaxSrc bytes came out as 2 * MaxSrc bytes in 2 * MaxSrc calls
\* of one byte each, the last one with the end of the stream, and the call
\* after them returned 0 bytes and the end of the stream.
C21_Witness ==
    /\ Len(fileData) = MaxSrc
    /\ calls = 2 * MaxSrc + 1
    /\ Len(pbuf) = 1
    /\ Len(emitted) = 2 * MaxSrc
    /\ Len(delivered) = 2 * MaxSrc
    /\ stopped /\ toldEOF /\ ~zeroLen
    /\ ret = [n |-> 0, err |-> "EOF"]

=============================================================================
